---- MODULE Spec2Model ----
(***************************************************************************)
(* Model of the foodgram backend: the Favorite / ShoppingCard / Follow     *)
(* relation tables, the toggle handlers of api/views.py that read and      *)
(* write them, and the shopping-list aggregation of get_shopping_cart.     *)
(*                                                                         *)
(* One HTTP request is one handler invocation.  A toggle handler touches   *)
(* the database twice: first the existence pre-check, later the insert or  *)
(* the delete.  Other requests may run between the two.                    *)
(*                                                                         *)
(* A recipe write of api/serializers.py validates its payload and then     *)
(* runs its database statements one by one, with no transaction around     *)
(* them; other writes and downloads may run between the statements.        *)
(***************************************************************************)
EXTENDS Integers, Sequences, FiniteSets, TLC

\* ---------------------------------------------------------------- bounds
NumUsers == 2
NumRecipes == 2
MaxRequests == 3

Users == 1..NumUsers
Recipes == 1..NumRecipes

\* ------------------------------------------------------------ HTTP codes
HTTP_200_OK == 200
HTTP_201_CREATED == 201
HTTP_204_NO_CONTENT == 204
HTTP_400_BAD_REQUEST == 400
HTTP_404_NOT_FOUND == 404
HTTP_500_INTERNAL_SERVER_ERROR == 500

VARIABLES
    favorite,            \* Favorite rows: (author, recipe) -> number of rows
    shopping,            \* ShoppingCard rows: (author, recipe) -> number of rows
    follow,              \* Follow rows: (user, following) -> number of rows
    recipe_ingredients,  \* RecipeIngredient rows, in insertion order
    reqs,                \* the requests received so far, in arrival order
    recipes,             \* Recipe rows: pk -> scalar fields
    recipe_tags,         \* Recipe.tags links: recipe pk -> set of tag pks
    writes,              \* the recipe write requests received so far
    born                 \* per relation and pair: how many toggle requests had
                         \* arrived when its newest row was inserted

vars == <<favorite, shopping, follow, recipe_ingredients, reqs,
          recipes, recipe_tags, writes, born>>

\* ------------------------------------------------------ ingredient table
\* Ingredient rows by primary key.  Nothing in the model makes (name,
\* measurement_unit) unique, so rows 2 and 4 carry the same name and unit.
Ingredient ==
    <<[name |-> "Egg",   measurement_unit |-> "pcs"],
      [name |-> "Flour", measurement_unit |-> "g"],
      [name |-> "Milk",  measurement_unit |-> "ml"],
      [name |-> "Flour", measurement_unit |-> "g"]>>

IngredientIds == DOMAIN Ingredient

\* order_by('name'): the sort key of a name (code point of its first
\* character, which decides the order of the names used here).
NameKey(name) ==
    CASE name = "Egg"   -> 69
      [] name = "Flour" -> 70
      [] name = "Milk"  -> 77

\* RecipeIngredient contents the recipes can have.
\* recipe 1 = [(Flour, 200), (Egg, 2)], recipe 2 = [(Flour, 100), (Milk, 50)]
ScenarioRows ==
    <<[recipe |-> 1, ingredient |-> 2, amount |-> 200],
      [recipe |-> 1, ingredient |-> 1, amount |-> 2],
      [recipe |-> 2, ingredient |-> 2, amount |-> 100],
      [recipe |-> 2, ingredient |-> 3, amount |-> 50]>>

\* recipe 2 uses the other Flour row
TwoFlourRows ==
    <<[recipe |-> 1, ingredient |-> 2, amount |-> 200],
      [recipe |-> 1, ingredient |-> 1, amount |-> 2],
      [recipe |-> 2, ingredient |-> 4, amount |-> 100],
      [recipe |-> 2, ingredient |-> 3, amount |-> 50]>>

\* recipe 2 has no ingredient rows (as between Recipe.objects.create and
\* the first RecipeIngredient.objects.create)
BareRecipeRows ==
    <<[recipe |-> 1, ingredient |-> 2, amount |-> 200],
      [recipe |-> 1, ingredient |-> 1, amount |-> 2]>>

RecipeIngredientFixtures == {ScenarioRows, TwoFlourRows, BareRecipeRows}

\* ------------------------------------------------------- relation tables
RecipePairs == Users \X Recipes
UserPairs == Users \X Users

\* Model.objects.filter(...).exists()
Exists(table, pair) == table[pair] > 0

\* Model.objects.create(...): one more row
InsertRow(table, pair) == [table EXCEPT ![pair] = @ + 1]

\* Rows get their primary key and place in the table when they are
\* inserted: the newest row of a pair is stamped with the number of toggle
\* requests that had arrived by then.
Stamp(kind, pair, before, after) ==
    IF after[pair] > before[pair]
    THEN [born EXCEPT ![kind][pair] = Len(reqs)]
    ELSE born

\* Faulty variant of DeleteRows: deletes one matching row, as
\* instance.delete() on .first() would.
DeleteFirstRow(table, pair) == [table EXCEPT ![pair] = IF @ > 0 THEN @ - 1 ELSE 0]

\* Faulty variant of DeleteRows: the filter names the user only, so the
\* rows of every pair of that user go.
DeleteRowsOfUser(table, pair) ==
    [p \in DOMAIN table |-> IF p[1] = pair[1] THEN 0 ELSE table[p]]

\* QuerySet.delete(): every matching row goes
DeleteRows(table, pair) == [table EXCEPT ![pair] = 0]

\* Constraints the database enforces on an insert.
FavoriteConstraints(table, pair) == TRUE       \* Favorite.Meta declares none

ShoppingCardConstraints(table, pair) == TRUE   \* ShoppingCard.Meta declares none

FollowConstraints(table, pair) ==
    /\ table[pair] = 0          \* unique_follow
    /\ pair[1] # pair[2]        \* prevent_self_follow

\* --------------------------------------------------------------- requests
NoLines == <<>>

Request(kind, method, user, target, exists) ==
    [kind |-> kind, method |-> method, user |-> user, target |-> target,
     pc |-> "checked", exists |-> exists,
     status |-> 0, error |-> "none", lines |-> NoLines,
     clean |-> TRUE]

InFlight(i) == reqs[i].pc = "checked"

AnyInFlight == \E i \in DOMAIN reqs : InFlight(i)

\* A step of request i falls between the two steps of every other request
\* that is in flight.
Interleave(rs, i) ==
    [j \in DOMAIN rs |->
        IF j # i /\ rs[j].pc = "checked"
        THEN [rs[j] EXCEPT !.clean = FALSE]
        ELSE rs[j]]

Arrive(r) ==
    /\ Len(reqs) < MaxRequests
    /\ reqs' = Interleave(Append(reqs, r), Len(reqs) + 1)

Respond(i, status, error) ==
    reqs' = Interleave([reqs EXCEPT ![i].pc = "done",
                                    ![i].status = status,
                                    ![i].error = error], i)

\* ------------------------------------------------- RecipeViewSet.favorite
\* Faulty variant of FavoriteDecision: POST without the
\* `if favorite_exists` branch.
FavoriteDecisionNoPreCheck(method, favorite_exists) ==
    IF method = "POST"
    THEN [op |-> "create", status |-> HTTP_201_CREATED, error |-> "none"]
    ELSE IF ~favorite_exists
         THEN [op |-> "none", status |-> HTTP_400_BAD_REQUEST, error |-> "not_found"]
         ELSE [op |-> "delete", status |-> HTTP_204_NO_CONTENT, error |-> "none"]

\* What the handler decides from the method and its pre-check.
FavoriteDecision(method, favorite_exists) ==
    IF method = "POST"
    THEN IF favorite_exists
         THEN [op |-> "none", status |-> HTTP_400_BAD_REQUEST, error |-> "already_exists"]
         ELSE [op |-> "create", status |-> HTTP_201_CREATED, error |-> "none"]
    ELSE IF ~favorite_exists
         THEN [op |-> "none", status |-> HTTP_400_BAD_REQUEST, error |-> "not_found"]
         ELSE [op |-> "delete", status |-> HTTP_204_NO_CONTENT, error |-> "none"]

FavoriteCheck(method, user, recipe) ==
    /\ Arrive(Request("favorite", method, user, recipe,
                      Exists(favorite, <<user, recipe>>)))
    /\ UNCHANGED <<favorite, shopping, follow, recipe_ingredients,
                   recipes, recipe_tags, writes, born>>

FavoriteAct(i) ==
    /\ InFlight(i)
    /\ reqs[i].kind = "favorite"
    /\ LET pair == <<reqs[i].user, reqs[i].target>>
           d == FavoriteDecision(reqs[i].method, reqs[i].exists)
       IN  CASE d.op = "create" ->
                    IF FavoriteConstraints(favorite, pair)
                    THEN /\ favorite' = InsertRow(favorite, pair)
                         /\ Respond(i, d.status, d.error)
                    ELSE /\ UNCHANGED favorite
                         /\ Respond(i, HTTP_500_INTERNAL_SERVER_ERROR, "integrity_error")
             [] d.op = "delete" ->
                    /\ favorite' = DeleteRows(favorite, pair)
                    /\ Respond(i, d.status, d.error)
             [] OTHER ->
                    /\ UNCHANGED favorite
                    /\ Respond(i, d.status, d.error)
    /\ born' = Stamp("favorite", <<reqs[i].user, reqs[i].target>>, favorite, favorite')
    /\ UNCHANGED <<shopping, follow, recipe_ingredients, recipes, recipe_tags, writes>>

\* ------------------------------------------------- RecipeViewSet.shopping
\* Faulty variant of ShoppingDecision: DELETE answers 204 but the delete
\* is never issued.
ShoppingDecisionKeepsRow(method, cart) ==
    IF method = "POST"
    THEN IF cart
         THEN [op |-> "none", status |-> HTTP_400_BAD_REQUEST, error |-> "already_exists"]
         ELSE [op |-> "create", status |-> HTTP_201_CREATED, error |-> "none"]
    ELSE IF ~cart
         THEN [op |-> "none", status |-> HTTP_400_BAD_REQUEST, error |-> "not_found"]
         ELSE [op |-> "none", status |-> HTTP_204_NO_CONTENT, error |-> "none"]

ShoppingDecision(method, cart) ==
    IF method = "POST"
    THEN IF cart
         THEN [op |-> "none", status |-> HTTP_400_BAD_REQUEST, error |-> "already_exists"]
         ELSE [op |-> "create", status |-> HTTP_201_CREATED, error |-> "none"]
    ELSE IF ~cart
         THEN [op |-> "none", status |-> HTTP_400_BAD_REQUEST, error |-> "not_found"]
         ELSE [op |-> "delete", status |-> HTTP_204_NO_CONTENT, error |-> "none"]

ShoppingCheck(method, user, recipe) ==
    /\ Arrive(Request("shopping", method, user, recipe,
                      Exists(shopping, <<user, recipe>>)))
    /\ UNCHANGED <<favorite, shopping, follow, recipe_ingredients,
                   recipes, recipe_tags, writes, born>>

ShoppingAct(i) ==
    /\ InFlight(i)
    /\ reqs[i].kind = "shopping"
    /\ LET pair == <<reqs[i].user, reqs[i].target>>
           d == ShoppingDecision(reqs[i].method, reqs[i].exists)
       IN  CASE d.op = "create" ->
                    IF ShoppingCardConstraints(shopping, pair)
                    THEN /\ shopping' = InsertRow(shopping, pair)
                         /\ Respond(i, d.status, d.error)
                    ELSE /\ UNCHANGED shopping
                         /\ Respond(i, HTTP_500_INTERNAL_SERVER_ERROR, "integrity_error")
             [] d.op = "delete" ->
                    /\ shopping' = DeleteRows(shopping, pair)
                    /\ Respond(i, d.status, d.error)
             [] OTHER ->
                    /\ UNCHANGED shopping
                    /\ Respond(i, d.status, d.error)
    /\ born' = Stamp("shopping", <<reqs[i].user, reqs[i].target>>, shopping, shopping')
    /\ UNCHANGED <<favorite, follow, recipe_ingredients, recipes, recipe_tags, writes>>

\* --------------------------------------------------- UserViewSet.subscribe
\* Faulty variant of SubscribeDecision: POST without the
\* `if user == following` branch.
SubscribeDecisionNoSelfCheck(method, follow_exists, user, following) ==
    IF method = "POST"
    THEN IF follow_exists
         THEN [op |-> "none", status |-> HTTP_400_BAD_REQUEST, error |-> "already_exists"]
         ELSE [op |-> "create", status |-> HTTP_201_CREATED, error |-> "none"]
    ELSE IF ~follow_exists
         THEN [op |-> "none", status |-> HTTP_400_BAD_REQUEST, error |-> "not_found"]
         ELSE [op |-> "delete", status |-> HTTP_204_NO_CONTENT, error |-> "none"]

SubscribeDecision(method, follow_exists, user, following) ==
    IF method = "POST"
    THEN IF follow_exists
         THEN [op |-> "none", status |-> HTTP_400_BAD_REQUEST, error |-> "already_exists"]
         ELSE IF user = following
         THEN [op |-> "none", status |-> HTTP_400_BAD_REQUEST, error |-> "self_reference"]
         ELSE [op |-> "create", status |-> HTTP_201_CREATED, error |-> "none"]
    ELSE IF ~follow_exists
         THEN [op |-> "none", status |-> HTTP_400_BAD_REQUEST, error |-> "not_found"]
         ELSE [op |-> "delete", status |-> HTTP_204_NO_CONTENT, error |-> "none"]

SubscribeCheck(method, user, following) ==
    /\ Arrive(Request("subscribe", method, user, following,
                      Exists(follow, <<user, following>>)))
    /\ UNCHANGED <<favorite, shopping, follow, recipe_ingredients,
                   recipes, recipe_tags, writes, born>>

\* Follow.objects.create raises IntegrityError when a constraint rejects the
\* row; the handler has no except clause, so the request ends as a 500.
SubscribeAct(i) ==
    /\ InFlight(i)
    /\ reqs[i].kind = "subscribe"
    /\ LET pair == <<reqs[i].user, reqs[i].target>>
           d == SubscribeDecision(reqs[i].method, reqs[i].exists,
                                  reqs[i].user, reqs[i].target)
       IN  CASE d.op = "create" ->
                    IF FollowConstraints(follow, pair)
                    THEN /\ follow' = InsertRow(follow, pair)
                         /\ Respond(i, d.status, d.error)
                    ELSE /\ UNCHANGED follow
                         /\ Respond(i, HTTP_500_INTERNAL_SERVER_ERROR, "integrity_error")
             [] d.op = "delete" ->
                    /\ follow' = DeleteRows(follow, pair)
                    /\ Respond(i, d.status, d.error)
             [] OTHER ->
                    /\ UNCHANGED follow
                    /\ Respond(i, d.status, d.error)
    /\ born' = Stamp("subscribe", <<reqs[i].user, reqs[i].target>>, follow, follow')
    /\ UNCHANGED <<favorite, shopping, recipe_ingredients, recipes, recipe_tags, writes>>

\* ---------------------------------------- RecipeViewSet.get_shopping_cart
\* Rows of the join Ingredient x RecipeIngredient x Recipe x ShoppingCard
\* restricted to the author: RecipeIngredient row k, once per cart row of
\* its recipe.
CartRows(cart, author, recipe) ==
    IF <<author, recipe>> \in DOMAIN cart THEN cart[<<author, recipe>>] ELSE 0

\* Faulty variant of JoinRows: the join is not restricted to the author,
\* every cart row of the recipe counts.
JoinRowsOfAnyAuthor(ri, cart, author) ==
    UNION {{k} \X (1..Cardinality(UNION {{u} \X (1..CartRows(cart, u, ri[k].recipe)) : u \in Users}))
           : k \in DOMAIN ri}

JoinRows(ri, cart, author) ==
    UNION {{k} \X (1..CartRows(cart, author, ri[k].recipe)) : k \in DOMAIN ri}

\* Faulty variant of GroupKey: GROUP BY name and unit (the first row with
\* the same label stands for the group).
GroupKeyByLabel(ingredient) ==
    CHOOSE g \in DOMAIN Ingredient :
        /\ Ingredient[g] = Ingredient[ingredient]
        /\ \A h \in DOMAIN Ingredient : Ingredient[h] = Ingredient[ingredient] => g <= h

\* annotate() before values(): GROUP BY the ingredient's primary key.
GroupKey(ingredient) == ingredient

RECURSIVE SumAmounts(_, _)
SumAmounts(ri, rows) ==
    IF rows = {} THEN 0
    ELSE LET jr == CHOOSE x \in rows : TRUE
         IN  ri[jr[1]].amount + SumAmounts(ri, rows \ {jr})

GroupKeys(ri, cart, author) ==
    {GroupKey(ri[jr[1]].ingredient) : jr \in JoinRows(ri, cart, author)}

\* Sum('recipe_amounts__amount') over the join rows of one group
TotalAmount(ri, cart, author, key) ==
    SumAmounts(ri, {jr \in JoinRows(ri, cart, author) :
                        GroupKey(ri[jr[1]].ingredient) = key})

\* values('name', 'measurement_unit', 'total_amount')
Values(ri, cart, author, key) ==
    [name |-> Ingredient[key].name,
     measurement_unit |-> Ingredient[key].measurement_unit,
     total_amount |-> TotalAmount(ri, cart, author, key)]

\* Faulty variant of OrderByName: no order_by, the rows come back in any order.
Unordered(keys) ==
    {s \in [1..Cardinality(keys) -> keys] :
        \A a, b \in DOMAIN s : a # b => s[a] # s[b]}

\* order_by('name'): the database may return rows of equal name in any order.
OrderByName(keys) ==
    {s \in [1..Cardinality(keys) -> keys] :
        /\ \A a, b \in DOMAIN s : a # b => s[a] # s[b]
        /\ \A a, b \in DOMAIN s :
              a < b => NameKey(Ingredient[s[a]].name) <= NameKey(Ingredient[s[b]].name)}

\* The result sets the query can return.
ShoppingListQuery(ri, cart, author) ==
    {[k \in DOMAIN s |-> Values(ri, cart, author, s[k])] :
        s \in OrderByName(GroupKeys(ri, cart, author))}

\* Faulty variant of CartIsEmpty: `if ingredients`.
CartIsNotEmpty(ingredients) == Len(ingredients) # 0

\* `if not ingredients`
CartIsEmpty(ingredients) == Len(ingredients) = 0

GetShoppingCart(user) ==
    /\ \E ingredients \in ShoppingListQuery(recipe_ingredients, shopping, user) :
          LET r == Request("download", "GET", user, 0, FALSE)
          IN  Arrive(IF CartIsEmpty(ingredients)
                     THEN [r EXCEPT !.pc = "done",
                                    !.status = HTTP_400_BAD_REQUEST,
                                    !.error = "empty_cart"]
                     ELSE [r EXCEPT !.pc = "done",
                                    !.status = HTTP_200_OK,
                                    !.lines = ingredients])
    /\ UNCHANGED <<favorite, shopping, follow, recipe_ingredients,
                   recipes, recipe_tags, writes, born>>

\* ------------------------------------------------------------------ spec
EmptyTable(pairs) == [p \in pairs |-> 0]

NeverInserted ==
    [k \in {"favorite", "shopping", "subscribe"} |->
        IF k = "subscribe" THEN EmptyTable(UserPairs) ELSE EmptyTable(RecipePairs)]

\* The recipes the toggles and the downloads work on: written by user 1,
\* tagged with tag 1.
InitialRecipes == [r \in Recipes |-> [name |-> "old", author |-> 1]]

InitialTags == [r \in Recipes |-> {1}]

Init ==
    /\ favorite = EmptyTable(RecipePairs)
    /\ shopping = EmptyTable(RecipePairs)
    /\ follow = EmptyTable(UserPairs)
    /\ recipe_ingredients \in RecipeIngredientFixtures
    /\ reqs = <<>>
    /\ recipes = InitialRecipes
    /\ recipe_tags = InitialTags
    /\ writes = <<>>
    /\ born = NeverInserted

Next ==
    \/ \E m \in {"POST", "DELETE"}, u \in Users, r \in Recipes : FavoriteCheck(m, u, r)
    \/ \E i \in DOMAIN reqs : FavoriteAct(i)
    \/ \E m \in {"POST", "DELETE"}, u \in Users, r \in Recipes : ShoppingCheck(m, u, r)
    \/ \E i \in DOMAIN reqs : ShoppingAct(i)
    \/ \E m \in {"POST", "DELETE"}, u \in Users, f \in Users : SubscribeCheck(m, u, f)
    \/ \E i \in DOMAIN reqs : SubscribeAct(i)
    \/ \E u \in Users : GetShoppingCart(u)

Spec == Init /\ [][Next]_vars

\* ------------------------------------------- a single sequential client
\* The same handlers, driven by one client that toggles one recipe and
\* waits for each response before it sends the next request, starting from
\* a store that already holds InitRows or fewer rows of one (author,
\* recipe) pair.
InitRows == 2

InitSeq ==
    /\ \E pair \in RecipePairs, nf \in 0..InitRows, ns \in 0..InitRows :
          /\ favorite = [EmptyTable(RecipePairs) EXCEPT ![pair] = nf]
          /\ shopping = [EmptyTable(RecipePairs) EXCEPT ![pair] = ns]
    /\ follow = EmptyTable(UserPairs)
    /\ recipe_ingredients = ScenarioRows
    /\ reqs = <<>>
    /\ recipes = InitialRecipes
    /\ recipe_tags = InitialTags
    /\ writes = <<>>
    /\ born = NeverInserted

SameSession(u, r) ==
    IF reqs = <<>> THEN TRUE ELSE u = reqs[1].user /\ r = reqs[1].target

SeqFavoriteCheck(m, u, r) ==
    ~AnyInFlight /\ SameSession(u, r) /\ FavoriteCheck(m, u, r)

SeqShoppingCheck(m, u, r) ==
    ~AnyInFlight /\ SameSession(u, r) /\ ShoppingCheck(m, u, r)

NextSeq ==
    \/ \E m \in {"POST", "DELETE"}, u \in Users, r \in Recipes : SeqFavoriteCheck(m, u, r)
    \/ \E i \in DOMAIN reqs : FavoriteAct(i)
    \/ \E m \in {"POST", "DELETE"}, u \in Users, r \in Recipes : SeqShoppingCheck(m, u, r)
    \/ \E i \in DOMAIN reqs : ShoppingAct(i)

SpecSeq == InitSeq /\ [][NextSeq]_vars

\* ================================================================ claims
Toggles == {"favorite", "shopping", "subscribe"}

TableOf(kind) ==
    CASE kind = "favorite" -> favorite
      [] kind = "shopping" -> shopping
      [] kind = "subscribe" -> follow

PairOf(r) == <<r.user, r.target>>

Done(i) == reqs[i].pc = "done"

\* Request i takes its second step now, and no step of another request
\* fell between its pre-check and this step.
CompletesAlone(i, method) ==
    /\ reqs[i].kind \in Toggles
    /\ reqs[i].method = method
    /\ reqs[i].pc = "checked"
    /\ reqs[i].clean
    /\ reqs'[i].pc = "done"

\* Every row of every relation table other than the rows of one pair is as before.
OnlyPairChanges(kind, pair) ==
    /\ \A p \in RecipePairs :
          /\ (kind # "favorite" \/ p # pair) => favorite'[p] = favorite[p]
          /\ (kind # "shopping" \/ p # pair) => shopping'[p] = shopping[p]
    /\ \A p \in UserPairs :
          (kind # "subscribe" \/ p # pair) => follow'[p] = follow[p]

\* C1: under every interleaving of toggle requests each relation holds at
\* most one row per pair: one Favorite per (author, recipe), one
\* ShoppingCard per (author, recipe), one Follow per (user, following).
C1_AtMostOneRowPerPair ==
    /\ \A p \in RecipePairs : favorite[p] <= 1 /\ shopping[p] <= 1
    /\ \A p \in UserPairs : follow[p] <= 1

\* C2: a request whose insert the storage constraint rejects ends as the
\* AlreadyExistsError (400) of the pre-check; no request ends with the raw
\* storage exception.
C2_RejectedInsertIsAlreadyExists ==
    \A i \in DOMAIN reqs :
        Done(i) =>
            /\ reqs[i].error # "integrity_error"
            /\ reqs[i].status # HTTP_500_INTERNAL_SERVER_ERROR

\* What C3 says of one uninterleaved ADD.
AddOutcome(i) ==
    LET kind == reqs[i].kind
        pair == PairOf(reqs[i])
    IN  IF TableOf(kind)[pair] = 0
        THEN /\ reqs'[i].status = HTTP_201_CREATED
             /\ reqs'[i].error = "none"
             /\ TableOf(kind)'[pair] = 1
             /\ OnlyPairChanges(kind, pair)
        ELSE /\ reqs'[i].status = HTTP_400_BAD_REQUEST
             /\ reqs'[i].error = "already_exists"
             /\ UNCHANGED <<favorite, shopping, follow>>

\* C3 as stated: for every relation kind, user and existing target an ADD
\* run without interleaving answers 201 and leaves the pair present exactly
\* when the pair was absent, and answers AlreadyExistsError and changes
\* nothing when it was present.
C3_AddEveryTarget ==
    [][\A i \in DOMAIN reqs : CompletesAlone(i, "POST") => AddOutcome(i)]_vars

\* C3 amended: the same, for every ADD except a subscribe whose target is
\* the acting user.
C3_AddOutcome ==
    [][\A i \in DOMAIN reqs :
          (CompletesAlone(i, "POST")
             /\ ~(reqs[i].kind = "subscribe" /\ reqs[i].user = reqs[i].target))
          => AddOutcome(i)]_vars

\* Two uninterleaved ADDs of one pair in a row: 201, then AlreadyExistsError.
C3_Witness ==
    \E i \in DOMAIN reqs :
        /\ i + 1 \in DOMAIN reqs
        /\ Done(i) /\ Done(i + 1) /\ reqs[i].clean /\ reqs[i + 1].clean
        /\ reqs[i].method = "POST" /\ reqs[i + 1].method = "POST"
        /\ reqs[i].kind \in Toggles /\ reqs[i + 1].kind = reqs[i].kind
        /\ PairOf(reqs[i + 1]) = PairOf(reqs[i])
        /\ reqs[i].status = HTTP_201_CREATED
        /\ reqs[i + 1].error = "already_exists"

\* C4: for every relation kind, user and existing target a REMOVE run
\* without interleaving answers 204 and leaves the pair absent exactly when
\* the pair was present, and answers NotFoundError and changes nothing when
\* it was absent.
C4_RemoveOutcome ==
    [][\A i \in DOMAIN reqs :
          CompletesAlone(i, "DELETE") =>
              LET kind == reqs[i].kind
                  pair == PairOf(reqs[i])
              IN  IF TableOf(kind)[pair] > 0
                  THEN /\ reqs'[i].status = HTTP_204_NO_CONTENT
                       /\ reqs'[i].error = "none"
                       /\ TableOf(kind)'[pair] = 0
                       /\ OnlyPairChanges(kind, pair)
                  ELSE /\ reqs'[i].error = "not_found"
                       /\ reqs'[i].status = HTTP_400_BAD_REQUEST
                       /\ UNCHANGED <<favorite, shopping, follow>>]_vars

\* Two uninterleaved REMOVEs of a present pair in a row: 204, then NotFoundError.
C4_Witness ==
    \E i \in DOMAIN reqs :
        /\ i + 1 \in DOMAIN reqs
        /\ Done(i) /\ Done(i + 1) /\ reqs[i].clean /\ reqs[i + 1].clean
        /\ reqs[i].method = "DELETE" /\ reqs[i + 1].method = "DELETE"
        /\ reqs[i].kind \in Toggles /\ reqs[i + 1].kind = reqs[i].kind
        /\ PairOf(reqs[i + 1]) = PairOf(reqs[i])
        /\ reqs[i].exists
        /\ reqs[i].status = HTTP_204_NO_CONTENT
        /\ reqs[i + 1].error = "not_found"

\* Requests k, k+1, k+2 are the last three, all answered, and are ADD,
\* REMOVE, ADD of one favorite or cart pair.
IsCycle(k) ==
    /\ k >= 1 /\ k + 2 = Len(reqs)
    /\ \A j \in k..(k + 2) :
          /\ Done(j)
          /\ reqs[j].kind = reqs[k].kind
          /\ PairOf(reqs[j]) = PairOf(reqs[k])
    /\ reqs[k].kind \in {"favorite", "shopping"}
    /\ reqs[k].method = "POST"
    /\ reqs[k + 1].method = "DELETE"
    /\ reqs[k + 2].method = "POST"

\* Each step of the cycle answers as the state just before it dictates:
\* the first ADD succeeds exactly when the pair was absent, the REMOVE and
\* the second ADD always succeed.
CycleStepsMatch(k) ==
    /\ IF reqs[k].exists
       THEN reqs[k].status = HTTP_400_BAD_REQUEST /\ reqs[k].error = "already_exists"
       ELSE reqs[k].status = HTTP_201_CREATED /\ reqs[k].error = "none"
    /\ reqs[k + 1].status = HTTP_204_NO_CONTENT /\ reqs[k + 1].error = "none"
    /\ reqs[k + 2].status = HTTP_201_CREATED /\ reqs[k + 2].error = "none"

\* C5 as stated: from any initial state of the pair, ADD, REMOVE, ADD brings
\* the pair back to its original existence state, and each step answers as
\* the state before it dictates.
C5_CycleRestoresOriginal ==
    \A k \in DOMAIN reqs :
        IsCycle(k) =>
            /\ Exists(TableOf(reqs[k].kind), PairOf(reqs[k])) = reqs[k].exists
            /\ CycleStepsMatch(k)

\* C5 amended: from any initial state of the pair, ADD, REMOVE, ADD leaves
\* the pair present with exactly one row (the original state only when the
\* pair was present at the start), and each step answers as the state
\* before it dictates.
C5_CycleEndsPresent ==
    \A k \in DOMAIN reqs :
        IsCycle(k) =>
            /\ TableOf(reqs[k].kind)[PairOf(reqs[k])] = 1
            /\ CycleStepsMatch(k)

\* A finished cycle on a pair that was present at the start.
C5_Witness ==
    \E k \in DOMAIN reqs : IsCycle(k) /\ reqs[k].exists

\* C6: a subscribe ADD by u targeting u ends with SelfReferenceError, never
\* with AlreadyExistsError or success, whatever the Follow table holds, and
\* no Follow row has user = following.
C6_SelfFollowRejected ==
    /\ \A u \in Users : follow[<<u, u>>] = 0
    /\ \A i \in DOMAIN reqs :
          (Done(i) /\ reqs[i].kind = "subscribe" /\ reqs[i].method = "POST"
                   /\ reqs[i].user = reqs[i].target)
          => /\ reqs[i].error = "self_reference"
             /\ reqs[i].status = HTTP_400_BAD_REQUEST

\* A self-subscribe answered while the user already follows someone.
C6_Witness ==
    \E i \in DOMAIN reqs :
        /\ Done(i) /\ reqs[i].kind = "subscribe" /\ reqs[i].method = "POST"
        /\ reqs[i].user = reqs[i].target
        /\ reqs[i].error = "self_reference"
        /\ \E f \in Users : follow[<<reqs[i].user, f>>] > 0

\* ------------------------------------------------ shopping-list claims
\* This step is a download; its response is the last element of reqs'.
DownloadStep ==
    /\ Len(reqs') = Len(reqs) + 1
    /\ reqs'[Len(reqs')].kind = "download"

RowsInCart(u) ==
    {k \in DOMAIN recipe_ingredients :
        shopping[<<u, recipe_ingredients[k].recipe>>] > 0}

\* Ingredient rows used by at least one recipe of u's cart.
CartIngredients(u) == {recipe_ingredients[k].ingredient : k \in RowsInCart(u)}

RECURSIVE AmountOfRows(_)
AmountOfRows(ks) ==
    IF ks = {} THEN 0
    ELSE LET k == CHOOSE x \in ks : TRUE
         IN  recipe_ingredients[k].amount + AmountOfRows(ks \ {k})

\* The amounts of ingredient i over the recipes of u's cart, each recipe once.
OncePerRecipeTotal(u, i) ==
    AmountOfRows({k \in RowsInCart(u) : recipe_ingredients[k].ingredient = i})

RECURSIVE AmountPerCartRow(_, _)
AmountPerCartRow(u, ks) ==
    IF ks = {} THEN 0
    ELSE LET k == CHOOSE x \in ks : TRUE
         IN  recipe_ingredients[k].amount * shopping[<<u, recipe_ingredients[k].recipe>>]
               + AmountPerCartRow(u, ks \ {k})

\* The amounts of ingredient row i alone, over the cart rows of u.
OwnSum(u, i) ==
    AmountPerCartRow(u, {k \in RowsInCart(u) : recipe_ingredients[k].ingredient = i})

Line(i, total) ==
    [name |-> Ingredient[i].name,
     measurement_unit |-> Ingredient[i].measurement_unit,
     total_amount |-> total]

SameLabel(i, j) ==
    /\ Ingredient[i].name = Ingredient[j].name
    /\ Ingredient[i].measurement_unit = Ingredient[j].measurement_unit

\* C7: in every reachable state the shopping list has one total per
\* ingredient of the cart's recipes, equal to the sum of the ingredient's
\* amounts over the recipes of the cart, each recipe counted once.
C7_TotalsOncePerRecipe ==
    [][DownloadStep =>
          LET r == reqs'[Len(reqs')]
              ids == CartIngredients(r.user)
          IN  \E f \in [DOMAIN r.lines -> ids] :
                  /\ \A a, b \in DOMAIN f : a # b => f[a] # f[b]
                  /\ \A i \in ids : \E a \in DOMAIN f : f[a] = i
                  /\ \A a \in DOMAIN f :
                        r.lines[a] = Line(f[a], OncePerRecipeTotal(r.user, f[a]))]_vars

\* C8 as stated: the lines are in strictly ascending order of name, so no
\* two lines carry the same name.
C8_StrictlyAscending ==
    \A i \in DOMAIN reqs :
        reqs[i].kind = "download" =>
            \A a, b \in DOMAIN reqs[i].lines :
                a < b => NameKey(reqs[i].lines[a].name) < NameKey(reqs[i].lines[b].name)

\* C8 amended: the lines are in ascending order of name, and two lines
\* carry the same name only when two distinct Ingredient rows of that name
\* are used by the cart's recipes.
C8_Ascending ==
    [][DownloadStep =>
          LET r == reqs'[Len(reqs')]
          IN  \A a, b \in DOMAIN r.lines :
                  a < b =>
                      /\ NameKey(r.lines[a].name) <= NameKey(r.lines[b].name)
                      /\ r.lines[a].name = r.lines[b].name =>
                             \E i, j \in CartIngredients(r.user) :
                                 /\ i # j
                                 /\ Ingredient[i].name = r.lines[a].name
                                 /\ Ingredient[j].name = r.lines[a].name]_vars

\* A list of three lines, two of them with the same name.
C8_Witness ==
    \E i \in DOMAIN reqs :
        /\ reqs[i].kind = "download"
        /\ Len(reqs[i].lines) >= 3
        /\ \E a \in DOMAIN reqs[i].lines :
              /\ a + 1 \in DOMAIN reqs[i].lines
              /\ reqs[i].lines[a].name = reqs[i].lines[a + 1].name
        /\ reqs[i].lines[1].name # reqs[i].lines[Len(reqs[i].lines)].name

\* C9: two distinct Ingredient rows with the same name and unit that both
\* occur in the cart give two separate lines, each with the sum of its own
\* row, and are not merged.
C9_GroupedByIdentity ==
    [][DownloadStep =>
          LET r == reqs'[Len(reqs')]
              ids == CartIngredients(r.user)
          IN  \A i, j \in ids :
                  (i # j /\ SameLabel(i, j)) =>
                      /\ \E a, b \in DOMAIN r.lines :
                            /\ a # b
                            /\ r.lines[a] = Line(i, OwnSum(r.user, i))
                            /\ r.lines[b] = Line(j, OwnSum(r.user, j))
                      /\ Cardinality({a \in DOMAIN r.lines :
                                         /\ r.lines[a].name = Ingredient[i].name
                                         /\ r.lines[a].measurement_unit
                                              = Ingredient[i].measurement_unit})
                           = Cardinality({h \in ids : SameLabel(h, i)})]_vars

\* A list with two Flour (g) lines of different totals.
C9_Witness ==
    \E i \in DOMAIN reqs :
        /\ reqs[i].kind = "download"
        /\ \E a, b \in DOMAIN reqs[i].lines :
              /\ a # b
              /\ reqs[i].lines[a].name = reqs[i].lines[b].name
              /\ reqs[i].lines[a].measurement_unit = reqs[i].lines[b].measurement_unit
              /\ reqs[i].lines[a].total_amount # reqs[i].lines[b].total_amount

\* C10: a download answers 400 EmptyCartError, with no report, exactly when
\* no ingredient row is aggregated for the user's cart; otherwise it
\* answers with the report and not with the error.
C10_EmptyCartError ==
    [][DownloadStep =>
          LET r == reqs'[Len(reqs')]
          IN  IF CartIngredients(r.user) = {}
              THEN /\ r.status = HTTP_400_BAD_REQUEST
                   /\ r.error = "empty_cart"
                   /\ r.lines = NoLines
              ELSE /\ r.status = HTTP_200_OK
                   /\ r.error = "none"
                   /\ Len(r.lines) >= 1]_vars

\* One download refused for a cart whose only recipe has no ingredient
\* rows, and one answered with a report.
C10_Witness ==
    /\ \E i \in DOMAIN reqs :
          /\ reqs[i].kind = "download" /\ reqs[i].error = "empty_cart"
          /\ \E rc \in Recipes : shopping[<<reqs[i].user, rc>>] > 0
    /\ \E i \in DOMAIN reqs :
          /\ reqs[i].kind = "download" /\ reqs[i].status = HTTP_200_OK

\* ---------------------------------------------- the rendered report body
\* `for i, ingredient in enumerate(ingredients, 1)`: one numbered line per
\* row of the query result, in the order of the result.
ReportLines(ingredients) ==
    [k \in DOMAIN ingredients |->
        [index |-> k,
         name |-> ingredients[k].name,
         measurement_unit |-> ingredients[k].measurement_unit,
         total_amount |-> ingredients[k].total_amount]]

\* The reports a download by user u can answer with in the current state.
Reports(u) ==
    {ReportLines(q) : q \in ShoppingListQuery(recipe_ingredients, shopping, u)}

\* C11: two runs of the shopping-list aggregation on the same store
\* snapshot give the same lines, in the same order, with the same indices,
\* also when ingredients of the cart share a name.
C11_SameSnapshotSameReport ==
    \A u \in Users : \A a, b \in Reports(u) : a = b

\* ================================================= RecipeWriteSerializer
MaxWrites == 2
MaxReads == 1

Range(s) == {s[k] : k \in DOMAIN s}

\* Request bodies of POST /recipes/ and PATCH /recipes/{id}/: a field the
\* client left out is not in the domain of the record.
WritePayloads ==
    {[name |-> "new", tags |-> <<2>>,
      ingredients |-> <<[id |-> 3, amount |-> 50]>>],
     [name |-> "new", tags |-> <<1, 2>>,
      ingredients |-> <<[id |-> 1, amount |-> 3], [id |-> 3, amount |-> 70]>>],
     [name |-> "new", tags |-> <<2>>,
      ingredients |-> <<[id |-> 1, amount |-> 2], [id |-> 1, amount |-> 3]>>],
     [name |-> "new", tags |-> <<2, 2>>,
      ingredients |-> <<[id |-> 1, amount |-> 2], [id |-> 1, amount |-> 3]>>],
     [name |-> "new", tags |-> <<>>,
      ingredients |-> <<[id |-> 1, amount |-> 2], [id |-> 1, amount |-> 3]>>],
     [name |-> "new", ingredients |-> <<[id |-> 3, amount |-> 50]>>],
     [name |-> "new", tags |-> <<2>>]}

\* `len(ids) != len(set(ids))`
HasDuplicates(ids) == Len(ids) # Cardinality(Range(ids))

IngredientIdsOf(data) == [k \in DOMAIN data.ingredients |-> data.ingredients[k].id]

\* Field validation: `required=True` (not enforced on PATCH, which is a
\* partial update), then validate_tags / validate_ingredients.
FieldErrors(op, data) ==
    {f \in {"ingredients", "tags"} :
        IF f \in DOMAIN data THEN data[f] = <<>> ELSE op = "create"}

\* Faulty variant of Validate: only the tags are checked for duplicates.
ValidateTagsOnly(data) ==
    IF "tags" \in DOMAIN data /\ HasDuplicates(data.tags)
    THEN {"tags"}
    ELSE {}

\* RecipeWriteSerializer.validate: the set of fields the error is keyed by.
Validate(data) ==
    IF "tags" \in DOMAIN data /\ HasDuplicates(data.tags)
    THEN {"tags"}
    ELSE IF "ingredients" \in DOMAIN data /\ HasDuplicates(IngredientIdsOf(data))
         THEN {"ingredients"}
         ELSE {}

\* Faulty variant of UpdateRequires: nothing is required.
UpdateRequiresNothing(data) == {}

\* The first statements of RecipeWriteSerializer.update.
UpdateRequires(data) ==
    IF "ingredients" \notin DOMAIN data
    THEN {"ingredients"}
    ELSE IF "tags" \notin DOMAIN data
         THEN {"tags"}
         ELSE {}

\* The fields of the validation error of a write request, {} when valid.
WriteErrors(op, data) ==
    IF FieldErrors(op, data) # {}
    THEN FieldErrors(op, data)
    ELSE IF Validate(data) # {}
         THEN Validate(data)
         ELSE IF op = "update" THEN UpdateRequires(data) ELSE {}

\* The database statements of create and of update, in program order.
CreateProgram == <<"insert_recipe", "set_tags", "create_rows">>

\* Faulty variant of UpdateProgram: the tags are set before the save.
UpdateProgramTagsFirst == <<"set_tags", "save", "delete_rows", "create_rows">>

UpdateProgram == <<"save", "set_tags", "delete_rows", "create_rows">>

Program(op) == IF op = "create" THEN CreateProgram ELSE UpdateProgram

\* Faulty variant of RowsWithout: the old rows are kept.
RowsKept(rows, recipe) == rows

\* `instance.ingredient_amounts.all().delete()`
RowsWithout(rows, recipe) == SelectSeq(rows, LAMBDA row : row.recipe # recipe)

Running(w) == writes[w].pc = "running"

InterleaveWrites(ws, w) ==
    [j \in DOMAIN ws |->
        IF j # w /\ ws[j].pc = "running" THEN [ws[j] EXCEPT !.clean = FALSE] ELSE ws[j]]

\* The request is received, the instance of an update is loaded and the
\* payload validated; nothing is written yet.
WriteArrive(op, user, recipe, data) ==
    /\ Len(writes) < MaxWrites
    /\ op = "update" => recipe \in DOMAIN recipes
    /\ LET errors == WriteErrors(op, data)
           q == [op |-> op, user |-> user, recipe |-> recipe, data |-> data,
                 instance |-> IF op = "update" THEN recipes[recipe]
                              ELSE [name |-> data.name, author |-> user],
                 pc |-> IF errors = {} THEN "running" ELSE "done",
                 at |-> 1, made |-> 0,
                 status |-> IF errors = {} THEN 0 ELSE HTTP_400_BAD_REQUEST,
                 errors |-> errors, clean |-> TRUE]
       IN  writes' = InterleaveWrites(Append(writes, q), Len(writes) + 1)
    /\ UNCHANGED <<favorite, shopping, follow, reqs, born,
                   recipes, recipe_tags, recipe_ingredients>>

\* The record of a write after one more statement: answered when the
\* program is through.
Advance(q) ==
    IF q.at > Len(Program(q.op))
    THEN [q EXCEPT !.pc = "done",
                   !.status = IF q.op = "create" THEN HTTP_201_CREATED ELSE HTTP_200_OK]
    ELSE q

\* One database statement of a create or an update.
WriteStep(w) ==
    /\ w \in DOMAIN writes
    /\ Running(w)
    /\ LET q == writes[w]
           stmt == Program(q.op)[q.at]
           next == [q EXCEPT !.at = @ + 1]
       IN  CASE stmt = "insert_recipe" ->
                    /\ recipes' = Append(recipes, q.instance)
                    /\ recipe_tags' = Append(recipe_tags, {})
                    /\ writes' = InterleaveWrites(
                           [writes EXCEPT ![w] = Advance([next EXCEPT !.recipe = Len(recipes) + 1])], w)
                    /\ UNCHANGED recipe_ingredients
             [] stmt = "save" ->
                    /\ recipes' = [recipes EXCEPT ![q.recipe] =
                                       [q.instance EXCEPT !.name = q.data.name]]
                    /\ writes' = InterleaveWrites([writes EXCEPT ![w] = Advance(next)], w)
                    /\ UNCHANGED <<recipe_tags, recipe_ingredients>>
             [] stmt = "set_tags" ->
                    /\ recipe_tags' = IF "tags" \in DOMAIN q.data
                                      THEN [recipe_tags EXCEPT ![q.recipe] = Range(q.data.tags)]
                                      ELSE recipe_tags
                    /\ writes' = InterleaveWrites([writes EXCEPT ![w] = Advance(next)], w)
                    /\ UNCHANGED <<recipes, recipe_ingredients>>
             [] stmt = "delete_rows" ->
                    /\ recipe_ingredients' = IF "ingredients" \in DOMAIN q.data
                                             THEN RowsWithout(recipe_ingredients, q.recipe)
                                             ELSE recipe_ingredients
                    /\ writes' = InterleaveWrites([writes EXCEPT ![w] = Advance(next)], w)
                    /\ UNCHANGED <<recipes, recipe_tags>>
             [] stmt = "create_rows" ->
                    IF "ingredients" \in DOMAIN q.data /\ q.made < Len(q.data.ingredients)
                    THEN LET item == q.data.ingredients[q.made + 1]
                             more == [q EXCEPT !.made = @ + 1]
                         IN  /\ recipe_ingredients' =
                                    Append(recipe_ingredients,
                                           [recipe |-> q.recipe, ingredient |-> item.id,
                                            amount |-> item.amount])
                             /\ writes' = InterleaveWrites(
                                    [writes EXCEPT ![w] =
                                        IF more.made = Len(q.data.ingredients)
                                        THEN Advance([more EXCEPT !.at = @ + 1])
                                        ELSE more], w)
                             /\ UNCHANGED <<recipes, recipe_tags>>
                    ELSE /\ writes' = InterleaveWrites([writes EXCEPT ![w] = Advance(next)], w)
                         /\ UNCHANGED <<recipes, recipe_tags, recipe_ingredients>>
    /\ UNCHANGED <<favorite, shopping, follow, reqs, born>>

\* A reader beside the writers: a shopping-list download.
ReadShoppingCart(user) == Len(reqs) < MaxReads /\ GetShoppingCart(user)

\* Recipe 1 is in the cart of user 1; user 1 is the author of the recipes.
InitRecipe ==
    /\ favorite = EmptyTable(RecipePairs)
    /\ shopping = [EmptyTable(RecipePairs) EXCEPT ![<<1, 1>>] = 1]
    /\ follow = EmptyTable(UserPairs)
    /\ recipe_ingredients = ScenarioRows
    /\ reqs = <<>>
    /\ recipes = InitialRecipes
    /\ recipe_tags = InitialTags
    /\ writes = <<>>
    /\ born = NeverInserted

NextRecipe ==
    \/ \E data \in WritePayloads : WriteArrive("create", 1, 0, data)
    \/ \E r \in Recipes, data \in WritePayloads : WriteArrive("update", 1, r, data)
    \/ \E w \in DOMAIN writes : WriteStep(w)
    \/ \E u \in Users : ReadShoppingCart(u)

SpecRecipe == InitRecipe /\ [][NextRecipe]_vars

\* ------------------------------------------------- claims on recipe writes
\* C12: no two RecipeIngredient rows carry the same (recipe, ingredient)
\* pair, whatever the interleaving of create and update requests.
C12_UniquePerRecipeAndIngredient ==
    \A j, k \in DOMAIN recipe_ingredients :
        (/\ recipe_ingredients[j].recipe = recipe_ingredients[k].recipe
         /\ recipe_ingredients[j].ingredient = recipe_ingredients[k].ingredient)
        => j = k

RecipeStoreUnchanged ==
    /\ recipes' = recipes
    /\ recipe_tags' = recipe_tags
    /\ recipe_ingredients' = recipe_ingredients

WriteDone(w) == writes[w].pc = "done"

RepeatsIngredient(data) ==
    /\ "ingredients" \in DOMAIN data
    /\ \E j, k \in DOMAIN data.ingredients :
          j # k /\ data.ingredients[j].id = data.ingredients[k].id

\* The tag list of the payload passes validation: it is there (or, on an
\* update, left out), not empty and without repeated ids.
TagsAccepted(op, data) ==
    IF "tags" \in DOMAIN data
    THEN data.tags # <<>> /\ ~HasDuplicates(data.tags)
    ELSE op = "update"

\* Write request w is received in this step.
Received(w) == w \in DOMAIN writes' /\ w \notin DOMAIN writes

OmitsTagsOrIngredients(data) ==
    "tags" \notin DOMAIN data \/ "ingredients" \notin DOMAIN data

\* C14: an update whose payload leaves out tags or ingredients is answered
\* with a validation error, and the scalar fields, the tag set and the
\* RecipeIngredient rows stay as they were.
C14_UpdateNeedsTagsAndIngredients ==
    [][\A w \in DOMAIN writes' :
          (/\ Received(w)
           /\ writes'[w].op = "update"
           /\ OmitsTagsOrIngredients(writes'[w].data)) =>
              /\ writes'[w].pc = "done"
              /\ writes'[w].status = HTTP_400_BAD_REQUEST
              /\ writes'[w].errors # {}
              /\ RecipeStoreUnchanged]_vars

C14_Witness ==
    /\ \E w \in DOMAIN writes :
          /\ writes[w].op = "update"
          /\ "tags" \notin DOMAIN writes[w].data
          /\ writes[w].status = HTTP_400_BAD_REQUEST
    /\ \E w \in DOMAIN writes :
          /\ writes[w].op = "update"
          /\ "ingredients" \notin DOMAIN writes[w].data
          /\ writes[w].status = HTTP_400_BAD_REQUEST
    /\ recipes = InitialRecipes
    /\ recipe_tags = InitialTags
    /\ recipe_ingredients = ScenarioRows

\* The (ingredient, amount) pairs stored for a recipe, in insertion order.
StoredPairs(recipe) ==
    LET rows == SelectSeq(recipe_ingredients, LAMBDA row : row.recipe = recipe)
    IN  [k \in DOMAIN rows |-> <<rows[k].ingredient, rows[k].amount>>]

PayloadPairs(data) ==
    [k \in DOMAIN data.ingredients |->
        <<data.ingredients[k].id, data.ingredients[k].amount>>]

\* Every write so far ran from its first to its last statement with no
\* statement of another write in between, and the last one received is
\* the last one that ran.
WritesRanInTurn ==
    \A w \in DOMAIN writes : WriteDone(w) /\ writes[w].clean

\* C15: after a successful update that ran without interleaving, the
\* RecipeIngredient rows of the recipe are exactly the (ingredient,
\* amount) pairs of the payload and its tags exactly the tags of the
\* payload.
C15_UpdateReplaces ==
    (writes # <<>> /\ WritesRanInTurn) =>
        LET q == writes[Len(writes)]
        IN  (q.op = "update" /\ q.status = HTTP_200_OK) =>
                /\ StoredPairs(q.recipe) = PayloadPairs(q.data)
                /\ recipe_tags[q.recipe] = Range(q.data.tags)

C15_Witness ==
    /\ writes # <<>>
    /\ WritesRanInTurn
    /\ LET q == writes[Len(writes)]
       IN  /\ q.op = "update"
           /\ q.status = HTTP_200_OK
           /\ q.recipe = 1
           /\ Len(q.data.ingredients) = 2
           /\ StoredPairs(1) = <<<<1, 3>>, <<3, 70>>>>
           /\ recipe_tags[1] = {1, 2}

\* Write w executes a statement in this step.
Executes(w) ==
    /\ Running(w)
    /\ writes'[w].at # writes[w].at \/ writes'[w].made # writes[w].made

\* C19: the statements of a successful update run in the order save,
\* set tags, delete the old rows, create the new rows one by one, each as
\* a step of its own that writes nothing else.
C19_UpdateWritesInOrder ==
    [][\A w \in DOMAIN writes :
          (writes[w].op = "update" /\ Executes(w)) =>
              LET q == writes[w]
              IN  CASE q.at = 1 ->
                           /\ recipes' = [recipes EXCEPT ![q.recipe].name = q.data.name]
                           /\ recipe_tags' = recipe_tags
                           /\ recipe_ingredients' = recipe_ingredients
                    [] q.at = 2 ->
                           /\ recipe_tags' = [recipe_tags EXCEPT ![q.recipe] = Range(q.data.tags)]
                           /\ recipes' = recipes
                           /\ recipe_ingredients' = recipe_ingredients
                    [] q.at = 3 ->
                           /\ recipe_ingredients' =
                                  SelectSeq(recipe_ingredients, LAMBDA row : row.recipe # q.recipe)
                           /\ recipes' = recipes
                           /\ recipe_tags' = recipe_tags
                    [] OTHER ->
                           /\ recipe_ingredients' =
                                  Append(recipe_ingredients,
                                         [recipe |-> q.recipe,
                                          ingredient |-> q.data.ingredients[q.made + 1].id,
                                          amount |-> q.data.ingredients[q.made + 1].amount])
                           /\ writes'[w].made = q.made + 1
                           /\ recipes' = recipes
                           /\ recipe_tags' = recipe_tags]_vars

\* A download by user 1, whose cart holds recipe 1, was answered with one
\* of the two new rows of the recipe while its update was still running.
C19_Witness ==
    /\ Len(writes) = 1
    /\ writes[1].op = "update"
    /\ writes[1].recipe = 1
    /\ Running(1)
    /\ writes[1].at = 4
    /\ writes[1].made = 1
    /\ recipes[1].name = "new"
    /\ \E i \in DOMAIN reqs :
          /\ reqs[i].kind = "download"
          /\ reqs[i].user = 1
          /\ reqs[i].status = HTTP_200_OK
          /\ Len(reqs[i].lines) = 1
          /\ reqs[i].lines[1].total_amount = 3

\* ========================================== toggles on a target by its pk
\* A primary key that no Recipe and no User row has.
UnknownPk == 0

\* get_object_or_404 / self.get_object(): is there a row with this pk?
TargetFound(ids, pk) == pk \in ids

\* Faulty variant of TargetNotFound: the relation is looked at first, so a
\* DELETE is answered as a missing relation and a POST fails on the insert.
RelationCheckedFirst(r) ==
    IF r.method = "DELETE"
    THEN [r EXCEPT !.pc = "done", !.status = HTTP_400_BAD_REQUEST, !.error = "not_found"]
    ELSE [r EXCEPT !.pc = "done", !.status = HTTP_500_INTERNAL_SERVER_ERROR,
                   !.error = "integrity_error"]

\* Http404 raised by the lookup of the target: the request is answered
\* before the handler comes to its relation query.
TargetNotFound(r) ==
    [r EXCEPT !.pc = "done", !.status = HTTP_404_NOT_FOUND, !.error = "not_found"]

AnswerNotFound(kind, method, user, pk) ==
    /\ Arrive(TargetNotFound(Request(kind, method, user, pk, FALSE)))
    /\ UNCHANGED <<favorite, shopping, follow, recipe_ingredients,
                   recipes, recipe_tags, writes, born>>

\* `recipe = self.get_object()`, then the pre-check.
FavoriteLookup(method, user, pk) ==
    IF TargetFound(Recipes, pk)
    THEN FavoriteCheck(method, user, pk)
    ELSE AnswerNotFound("favorite", method, user, pk)

ShoppingLookup(method, user, pk) ==
    IF TargetFound(Recipes, pk)
    THEN ShoppingCheck(method, user, pk)
    ELSE AnswerNotFound("shopping", method, user, pk)

\* `following = get_object_or_404(User, pk=pk)`, then the pre-check.
SubscribeLookup(method, user, pk) ==
    IF TargetFound(Users, pk)
    THEN SubscribeCheck(method, user, pk)
    ELSE AnswerNotFound("subscribe", method, user, pk)

InitTarget ==
    /\ favorite = EmptyTable(RecipePairs)
    /\ shopping = EmptyTable(RecipePairs)
    /\ follow = EmptyTable(UserPairs)
    /\ recipe_ingredients = ScenarioRows
    /\ reqs = <<>>
    /\ recipes = InitialRecipes
    /\ recipe_tags = InitialTags
    /\ writes = <<>>
    /\ born = NeverInserted

NextTarget ==
    \/ \E m \in {"POST", "DELETE"}, u \in Users, pk \in Recipes \cup {UnknownPk} :
          FavoriteLookup(m, u, pk)
    \/ \E i \in DOMAIN reqs : FavoriteAct(i)
    \/ \E m \in {"POST", "DELETE"}, u \in Users, pk \in Recipes \cup {UnknownPk} :
          ShoppingLookup(m, u, pk)
    \/ \E i \in DOMAIN reqs : ShoppingAct(i)
    \/ \E m \in {"POST", "DELETE"}, u \in Users, pk \in Users \cup {UnknownPk} :
          SubscribeLookup(m, u, pk)
    \/ \E i \in DOMAIN reqs : SubscribeAct(i)

SpecTarget == InitTarget /\ [][NextTarget]_vars

TargetIds(kind) == IF kind = "subscribe" THEN Users ELSE Recipes

RelationsUnchanged ==
    /\ favorite' = favorite
    /\ shopping' = shopping
    /\ follow' = follow

\* C16: a toggle request, POST or DELETE, on a recipe or user pk that no
\* row has is answered with the not-found error (404) in the step that
\* receives it, before any pre-check on the relation, and no relation row
\* is created or deleted.
C16_UnknownTargetNotFound ==
    [][\A i \in DOMAIN reqs' :
          (/\ reqs'[i].kind \in Toggles
           /\ reqs'[i].target \notin TargetIds(reqs'[i].kind)) =>
              /\ reqs'[i].pc = "done"
              /\ reqs'[i].status = HTTP_404_NOT_FOUND
              /\ reqs'[i].error = "not_found"
              /\ i \notin DOMAIN reqs => RelationsUnchanged]_vars

C16_Witness ==
    /\ \E i \in DOMAIN reqs :
          /\ reqs[i].kind = "favorite" /\ reqs[i].method = "POST"
          /\ reqs[i].target = UnknownPk /\ reqs[i].status = HTTP_404_NOT_FOUND
    /\ \E i \in DOMAIN reqs :
          /\ reqs[i].kind = "shopping" /\ reqs[i].method = "DELETE"
          /\ reqs[i].target = UnknownPk /\ reqs[i].status = HTTP_404_NOT_FOUND
    /\ \E i \in DOMAIN reqs :
          /\ reqs[i].kind = "subscribe" /\ reqs[i].method = "DELETE"
          /\ reqs[i].target = UnknownPk /\ reqs[i].status = HTTP_404_NOT_FOUND

\* ------------------------------------- subscriptions on a stored Follow
\* Concurrent subscribe requests on a store in which user 1 may already
\* follow user 2.
InitFollow ==
    /\ favorite = EmptyTable(RecipePairs)
    /\ shopping = EmptyTable(RecipePairs)
    /\ follow \in {EmptyTable(UserPairs), [EmptyTable(UserPairs) EXCEPT ![<<1, 2>>] = 1]}
    /\ recipe_ingredients = ScenarioRows
    /\ reqs = <<>>
    /\ recipes = InitialRecipes
    /\ recipe_tags = InitialTags
    /\ writes = <<>>
    /\ born = NeverInserted

NextFollow ==
    \/ \E m \in {"POST", "DELETE"}, u \in Users, f \in Users : SubscribeCheck(m, u, f)
    \/ \E i \in DOMAIN reqs : SubscribeAct(i)

SpecFollow == InitFollow /\ [][NextFollow]_vars

\* Request i, a DELETE, deletes rows in this step.
DeletesRows(i) ==
    /\ reqs[i].kind \in Toggles
    /\ reqs[i].method = "DELETE"
    /\ reqs[i].pc = "checked"
    /\ reqs'[i].pc = "done"
    /\ reqs'[i].status = HTTP_204_NO_CONTENT
    /\ TableOf(reqs[i].kind)[PairOf(reqs[i])] > 0

\* C17: a toggle request looks the relation up once, in its pre-check, and
\* its mutation step works on the record found there: the rows a DELETE
\* removes were all in the table when the request made its pre-check.
C17_MutationUsesPreCheckRecord ==
    [][\A i \in DOMAIN reqs :
          DeletesRows(i) => born[reqs[i].kind][PairOf(reqs[i])] < i]_vars

\* ------------------------------------------------------- is_subscribed
\* UserSerializer.get_is_subscribed / FollowSerializer.get_is_subscribed:
\* obj is the represented user, viewer is request.user.
GetIsSubscribed(obj, viewer, is_authenticated) ==
    IF is_authenticated
    THEN Exists(follow, <<obj, viewer>>)
    ELSE FALSE

\* C18: in a user representation returned to an authenticated viewer,
\* is_subscribed is true exactly when a Follow row (user = viewer,
\* following = represented user) exists, so it is true for the user just
\* followed by a successful subscribe POST; it is false for an
\* unauthenticated viewer.
C18_IsSubscribedMeansViewerFollows ==
    \A viewer \in Users, obj \in Users :
        /\ GetIsSubscribed(obj, viewer, TRUE) = (follow[<<viewer, obj>>] > 0)
        /\ GetIsSubscribed(obj, viewer, FALSE) = FALSE

\* ------------------------------------------------ carts of other users
OwnCartUnchanged(u) == \A r \in Recipes : shopping'[<<u, r>>] = shopping[<<u, r>>]

\* C20: the shopping list of user u depends on the cart of u only: a step
\* that adds a recipe to or removes it from the cart of another user, also
\* a recipe that is in the cart of u, changes neither the lines nor the
\* totals of the list of u.
C20_OwnCartOnly ==
    [][\A u \in Users :
          (shopping' # shopping /\ OwnCartUnchanged(u)) =>
              ShoppingListQuery(recipe_ingredients', shopping', u)
                  = ShoppingListQuery(recipe_ingredients, shopping, u)]_vars

\* User 1 downloaded the list after user 2 had put a recipe of the cart of
\* user 1 into the cart of user 2 as well.
C20_Witness ==
    \E i \in DOMAIN reqs, j \in DOMAIN reqs :
        /\ j < i
        /\ \A k \in DOMAIN reqs : Done(k) /\ reqs[k].clean
        /\ reqs[i].kind = "download"
        /\ reqs[i].user = 1
        /\ reqs[i].status = HTTP_200_OK
        /\ reqs[j].kind = "shopping"
        /\ reqs[j].method = "POST"
        /\ reqs[j].user = 2
        /\ reqs[j].status = HTTP_201_CREATED
        /\ shopping[<<1, reqs[j].target>>] > 0
        /\ shopping[<<2, reqs[j].target>>] > 0
        /\ \A k \in DOMAIN reqs[i].lines :
              \E g \in IngredientIds :
                  reqs[i].lines[k].total_amount = OwnSum(1, g)

\* ------------------------------------------------- frame of the handlers
\* Request i is received or answered in this step.
TakesStep(i) == i \notin DOMAIN reqs \/ reqs'[i].pc # reqs[i].pc

\* C21: the relations are independent: a step of a favorite, shopping or
\* subscribe request, answered with success or with an error, changes no
\* table of another kind and in its own table at most the rows of its pair
\* (acting user, target); a shopping-list download changes no relation.
C21_TogglesAreIndependent ==
    [][\A i \in DOMAIN reqs' :
          TakesStep(i) =>
              IF reqs'[i].kind = "download"
              THEN RelationsUnchanged
              ELSE OnlyPairChanges(reqs'[i].kind, PairOf(reqs'[i]))]_vars

\* User 1 removed recipe 1 from the favorites while recipe 2 stayed there,
\* and the cart row of user 1 for recipe 1 is still in place.
C21_Witness ==
    /\ favorite[<<1, 1>>] = 0
    /\ favorite[<<1, 2>>] = 1
    /\ shopping[<<1, 1>>] = 1
    /\ \E i \in DOMAIN reqs :
          /\ reqs[i].kind = "favorite"
          /\ reqs[i].method = "DELETE"
          /\ PairOf(reqs[i]) = <<1, 1>>
          /\ reqs[i].status = HTTP_400_BAD_REQUEST
    /\ \E i \in DOMAIN reqs :
          /\ reqs[i].kind = "favorite"
          /\ reqs[i].method = "POST"
          /\ PairOf(reqs[i]) = <<1, 2>>
          /\ reqs[i].status = HTTP_201_CREATED
    /\ \E i \in DOMAIN reqs :
          /\ reqs[i].kind = "shopping"
          /\ reqs[i].method = "POST"
          /\ PairOf(reqs[i]) = <<1, 1>>
          /\ reqs[i].status = HTTP_201_CREATED
====
